---------------------------- MODULE Spec2Model ----------------------------
(***************************************************************************)
(* Modal visibility and navigation routing of the portfolio page.          *)
(*                                                                         *)
(* The page (index.html) carries five modals and a navigation bar.  Up to  *)
(* three script layers attach listeners to the same elements:              *)
(*   - the inline script of index.html,                                    *)
(*   - the entry script (two versions of it exist in the repository: the   *)
(*     one that initialises the basic layer at once, and the fallback      *)
(*     variant that initialises it only when the module import fails),     *)
(*   - the enhanced layer (PortfolioApp, Modal and Navigation components). *)
(* One event runs the listeners of every attached layer, in registration   *)
(* order, to completion; timers fire later as separate steps.              *)
(***************************************************************************)
EXTENDS Integers, Sequences, FiniteSets, TLC

\* ------------------------------------------------------------------ bounds
\* Pending timers (setTimeout callbacks not yet run) the model keeps.
MaxTimers == 2

\* Descendants of a modal that match the focusable selectors.
MaxElems == 3

\* Subscriptions the event bus holds for one event.
MaxSubs == 2

\* Listeners subscribed to the application state.
MaxListeners == 2
MaxHandlers == 2
MaxRetries == 2
MaxRegistered == 2
MaxCalls == 3
MaxLogCalls == 4
\* Logger.maxLogs is 1000 in the source.
maxLogs == 2
MaxArrivals == 4
\* ErrorHandler.maxQueueSize is 100 in the source; the queue of the model
\* is full after maxQueueSize arrivals all the same.
maxQueueSize == 2

\* ------------------------------------------------------- the page (static)
\* The five modals of index.html, in document order.
ModalIds == <<"modal-experience", "modal-education", "modal-projects",
              "modal-skills", "modal-contact">>

Modals == {ModalIds[i] : i \in 1..Len(ModalIds)}

\* Position of a modal in document order.
DomIndex(m) == CHOOSE i \in 1..Len(ModalIds) : ModalIds[i] = m

\* navMap with two entries exchanged.
navMap_swapped == [k \in {"experience", "education", "projects", "skills", "contact"} |->
             CASE k = "experience" -> "modal-experience"
               [] k = "education"  -> "modal-education"
               [] k = "projects"   -> "modal-projects"
               [] k = "skills"     -> "modal-contact"
               [] k = "contact"    -> "modal-skills"]

\* Modal navigation mapping (the same literal in every layer).
navMap == [k \in {"experience", "education", "projects", "skills", "contact"} |->
             CASE k = "experience" -> "modal-experience"
               [] k = "education"  -> "modal-education"
               [] k = "projects"   -> "modal-projects"
               [] k = "skills"     -> "modal-skills"
               [] k = "contact"    -> "modal-contact"]

\* href attributes of the links inside <nav>.
NavHrefs == {"#hero", "#experience", "#education", "#projects", "#skills",
             "#contact", "#", "assets/resume.pdf"}

\* href.startsWith('#')  /  the selector a[href^="#"]
StartsWithHash(href) == href # "assets/resume.pdf"

\* href.replace('#','')
HashOf(href) ==
    CASE href = "#hero"       -> "hero"
      [] href = "#experience" -> "experience"
      [] href = "#education"  -> "education"
      [] href = "#projects"   -> "projects"
      [] href = "#skills"     -> "skills"
      [] href = "#contact"    -> "contact"
      [] href = "#"           -> ""
      [] OTHER                -> href

\* The link that nav a[href="#" + modal.id.replace('modal-','')] selects.
TriggerOf(m) ==
    CASE m = "modal-experience" -> "#experience"
      [] m = "modal-education"  -> "#education"
      [] m = "modal-projects"   -> "#projects"
      [] m = "modal-skills"     -> "#skills"
      [] m = "modal-contact"    -> "#contact"

\* First descendant of a modal matching
\* 'button, [href], input, select, textarea, [tabindex]:not([tabindex="-1"])':
\* only #modal-contact has one (its e-mail link); the close controls are spans.
FirstFocusable(m) == IF m = "modal-contact" THEN "mailto" ELSE "none"

\* The inline style attribute written in the markup: only #modal-projects
\* has one, "align-items: flex-start;".
MarkupStyleHasFlex(m) == m = "modal-projects"

\* Elements that can be document.activeElement in the model.
FocusTargets == {"body", "mailto"} \cup NavHrefs

\* ------------------------------------------------------------------- state
VARIABLES
    boot,        \* which entry script is deployed: "main" or "variant"
    enhanced,    \* dynamic import of app.js: "loading", "attached", "failed"
    display,     \* modal -> element.style.display: "", "none", "flex"
    aria,        \* modal -> aria-hidden attribute: "unset", "true", "false"
    overflow,    \* document.body.style.overflow: "", "hidden"
    focus,       \* document.activeElement
    prevFocused, \* modal -> Modal.previouslyFocused ("null" when not set)
    activeModal, \* AppState.state.activeModal ("null" or a modal id)
    timers,      \* pending setTimeout callbacks, in scheduling order
    scroll,      \* where the viewport is: "top", "hero" (the #hero section
                 \* at its start) or "below"
    trap,        \* a Modal component's focus trap (see the focus trap section)
    bus,         \* the EventBus singleton (see the event bus section)
    app,         \* the AppState singleton (see the application state section)
    anim,        \* the AnimationManager singleton (see the animation section)
    logger,      \* the Logger singleton (see the logger section)
    comp,        \* two BaseComponent instances (see the component section)
    errs,        \* the ErrorHandler singleton (see the error handler section)
    cfg,         \* the ConfigManager singleton (see the configuration section)
    last,        \* the step just taken: [op, m, prevented, diag]
    rt,          \* the latest opening of a closed modal through a link:
                 \* the modal, and body overflow and focus as open found them
    evt          \* the 'modal:opened' / 'modal:closed' events published so
                 \* far: the last one of every modal, and whether the events
                 \* of every modal alternated, starting with 'modal:opened'

vars == <<boot, enhanced, display, aria, overflow, focus,
          prevFocused, activeModal, timers, scroll, trap, bus, app, cfg,
          errs, comp, anim, logger, last, rt, evt>>

\* The service singletons, each modelled on its own.
svcVars == <<cfg, errs, comp, anim, logger>>

\* The variables of the page, as opposed to those of the components that
\* are modelled on their own.
pageVars == <<boot, enhanced, display, aria, overflow, focus,
              prevFocused, activeModal, timers, scroll, last, rt, evt>>

\* The mutable page state as one record, so that the listeners of one event
\* can be applied one after the other.  prevented (preventDefault was called)
\* and diag (a warning or an error was logged) belong to the event.
Cur == [display |-> display, aria |-> aria, overflow |-> overflow, focus |-> focus,
        prevFocused |-> prevFocused, activeModal |-> activeModal,
        timers |-> timers, scroll |-> scroll, prevented |-> FALSE, diag |-> FALSE,
        published |-> << >>]

\* A modal is rendered when its inline display is 'flex' (the stylesheet
\* gives .modal display: none).
Shown(s, m) == s.display[m] = "flex"

IsDisplayed(m) == display[m] = "flex"

OpenSet == {m \in Modals : IsDisplayed(m)}

\* Delay of a timer kind, in milliseconds.
Delay(kind) ==
    CASE kind = "focus100" -> 100
      [] kind = "focus50"  -> 50
      [] kind = "closeAnim" -> 300

\* setTimeout(callback, Delay(kind))
Sched(s, kind, m) == [s EXCEPT !.timers = Append(@, [kind |-> kind, m |-> m])]

\* The element that has focus when the task ends: an element that is no
\* longer rendered (the e-mail link of a hidden #modal-contact) loses it.
Settle(s) ==
    IF s.focus = "mailto" /\ ~Shown(s, "modal-contact")
    THEN [s EXCEPT !.focus = "body"]
    ELSE s

\* element.focus(): only a rendered element takes focus.
FocusOn(s, el) ==
    IF el = "mailto" /\ ~Shown(s, "modal-contact") THEN s
    ELSE [s EXCEPT !.focus = el]

\* ---------------------------------------------------- entry script (main)
\* closeAllModals that only touches the modals it finds displayed.
closeAllModals_openOnly(s) ==
    [s EXCEPT !.display = [m \in Modals |-> IF s.display[m] = "flex" THEN "none"
                                             ELSE s.display[m]],
              !.aria = [m \in Modals |-> IF s.display[m] = "flex" THEN "true"
                                          ELSE s.aria[m]],
              !.overflow = ""]

\* window.closeAllModals
closeAllModals(s) ==
    [s EXCEPT !.display = [m \in Modals |-> "none"],
              !.aria = [m \in Modals |-> "true"],
              !.overflow = ""]

\* closeModal without the reset of body.style.overflow.
closeModal_keepLock(s, m) ==
    FocusOn([s EXCEPT !.display[m] = "none", !.aria[m] = "true"], TriggerOf(m))

\* closeModal(modal) of initBasicPortfolio
closeModal(s, m) ==
    FocusOn([s EXCEPT !.display[m] = "none",
                      !.aria[m] = "true",
                      !.overflow = ""],
            TriggerOf(m))

\* The open branch of the navigation click listener.  It also writes
\* style.opacity = '1' and style.zIndex = '10000', which nothing reads and
\* which are alike for every modal this branch shows; the emergency-close
\* button it looks up is not in index.html.
BasicOpen(s, m) ==
    LET shown == [s EXCEPT !.display[m] = "flex",
                           !.aria[m] = "false",
                           !.overflow = "hidden"]
    IN  IF FirstFocusable(m) # "none" THEN Sched(shown, "focus100", m)
        ELSE shown

\* Click listener of initBasicPortfolio on nav a[href^="#"].
BasicNavClick(s, href) ==
    IF ~StartsWithHash(href) THEN s
    ELSE LET hash == HashOf(href) IN
         IF hash \in DOMAIN navMap
         THEN IF navMap[hash] \in Modals
              THEN BasicOpen([s EXCEPT !.prevented = TRUE], navMap[hash])
              ELSE [s EXCEPT !.prevented = TRUE, !.diag = TRUE]
         ELSE IF hash = "hero"
              THEN [s EXCEPT !.prevented = TRUE, !.scroll = "top"]
              ELSE s

\* Click listener of initBasicPortfolio on the resume button (href "#"); the
\* 'active' class it toggles on the dropdown is not part of the model.
BasicResumeClick(s, href) ==
    IF href = "#" THEN [s EXCEPT !.prevented = TRUE] ELSE s

\* The .modal[style*="flex"] selector: the style attribute holds "flex" when
\* display is 'flex' or when the markup's own style does.
StyleHasFlex(s, m) == Shown(s, m) \/ MarkupStyleHasFlex(m)

\* document.querySelector: the first match in document order, 0 for null.
FirstFlexIndex(s) ==
    LET hits == {i \in 1..Len(ModalIds) : StyleHasFlex(s, ModalIds[i])} IN
    IF hits = {} THEN 0 ELSE CHOOSE i \in hits : \A j \in hits : i <= j

\* Click listener of initBasicPortfolio on the close control of modal b
\* (data-modal = b, closest('.modal') = b).
BasicCloseClick(s, b) ==
    LET p == [s EXCEPT !.prevented = TRUE] IN
    IF FirstFlexIndex(p) # 0 THEN closeModal(p, ModalIds[FirstFlexIndex(p)])
    ELSE IF b \in Modals THEN closeModal(p, b)
    ELSE closeAllModals(p)

\* Click listener of initBasicPortfolio on a modal; target is "root" when the
\* event target is the modal itself (its backdrop), "content" otherwise.
BasicModalClick(s, m, target) == IF target = "root" THEN closeModal(s, m) ELSE s

\* keydown listener of initBasicPortfolio, key 'Escape'.
BasicEscape(s) == closeAllModals(s)

\* setTimeout callback of the open branch: focus the first focusable element.
BasicFocusTimer(s, m) ==
    IF FirstFocusable(m) # "none" THEN FocusOn(s, FirstFocusable(m)) ELSE s

\* ------------------------------------------------------------ inline script
\* Click listener of the inline script on nav a.
InlineNavClick(s, href) ==
    LET hash == HashOf(href) IN
    IF hash \in DOMAIN navMap
    THEN [s EXCEPT !.prevented = TRUE, !.display[navMap[hash]] = "flex"]
    ELSE s

\* Click listener of the inline script on a close control (dataset.modal = b).
InlineCloseClick(s, b) == [s EXCEPT !.display[b] = "none"]

\* The inline modal listener without its e.target === modal test.
InlineModalClick_anyTarget(s, m, target) == [s EXCEPT !.display[m] = "none"]

\* Click listener of the inline script on a modal.
InlineModalClick(s, m, target) ==
    IF target = "root" THEN [s EXCEPT !.display[m] = "none"] ELSE s

\* ------------------------------------------- entry script (fallback variant)
\* Navigation listener of the fallback initBasicPortfolio.
VariantNavClick(s, href) ==
    IF ~StartsWithHash(href) THEN s
    ELSE LET hash == HashOf(href) IN
         IF hash \in DOMAIN navMap
         THEN IF navMap[hash] \in Modals
              THEN [s EXCEPT !.prevented = TRUE, !.display[navMap[hash]] = "flex"]
              ELSE [s EXCEPT !.prevented = TRUE]
         ELSE s

\* Close-control listener of the fallback initBasicPortfolio (closest('.modal')).
VariantCloseClick(s, b) == [s EXCEPT !.display[b] = "none"]

\* Click listener of the fallback initBasicPortfolio on a modal.
VariantModalClick(s, m, target) ==
    IF target = "root" THEN [s EXCEPT !.display[m] = "none"] ELSE s

\* Escape listener of the fallback initBasicPortfolio.
VariantEscape(s) ==
    [s EXCEPT !.display = [m \in Modals |-> IF s.display[m] = "flex" THEN "none"
                                             ELSE s.display[m]]]

\* ----------------------------------------------------------- enhanced layer
\* Modal.isOpen
isOpen(s, m) == s.display[m] = "flex"

\* A close whose animation never calls back.
ModalClose_noCallback(s, m) == s

\* Modal.close: the hiding is deferred to the end of the 'out' animation.
ModalClose(s, m) ==
    IF ~isOpen(s, m) THEN s ELSE Sched(s, "closeAnim", m)

\* The callback Modal.close hands to applyAnimation.
CloseCallback(s, m) ==
    LET hidden == [s EXCEPT !.display[m] = "none", !.aria[m] = "true"]
        focused == IF hidden.prevFocused[m] # "null"
                   THEN FocusOn(hidden, hidden.prevFocused[m])
                   ELSE hidden
    IN  [focused EXCEPT !.overflow = "", !.activeModal = "null",
                        !.published = Append(@, [event |-> "modal:closed", m |-> m])]

\* The 'modal:close-all' subscriber of PortfolioApp.setupEventSystem, over
\* the components in registration (document) order.
RECURSIVE CloseAllFrom(_, _)
CloseAllFrom(s, i) ==
    IF i > Len(ModalIds) THEN s
    ELSE CloseAllFrom(ModalClose(s, ModalIds[i]), i + 1)

\* Modal.open
ModalOpen(s, m) ==
    IF isOpen(s, m) THEN s
    ELSE LET c == CloseAllFrom(s, 1)
             shown == [c EXCEPT !.prevFocused[m] = c.focus,
                                !.display[m] = "flex",
                                !.aria[m] = "false"]
             timed == IF FirstFocusable(m) # "none"
                      THEN Sched(shown, "focus50", m) ELSE shown
         IN  [timed EXCEPT !.activeModal = m, !.overflow = "hidden",
                           !.published = Append(@, [event |-> "modal:opened", m |-> m])]

\* setTimeout callback of Modal.open: Modal.focusFirstElement.
EnhancedFocusTimer(s, m) ==
    IF FirstFocusable(m) # "none" /\ Shown(s, m)
    THEN FocusOn(s, FirstFocusable(m)) ELSE s

\* The 'modal:open' subscriber of PortfolioApp.setupEventSystem.
OnModalOpen(s, id) == IF id \in Modals THEN ModalOpen(s, id) ELSE s

\* document.querySelector(href) of handleNavigation for a href that is no
\* modal key: "found" for "#hero", "throws" for "#" (not a valid selector).
SectionLookup(href) ==
    CASE href = "#hero" -> "found"
      [] href = "#"     -> "throws"
      [] OTHER          -> "null"

\* Navigation click listener and Navigation.handleNavigation.  The listener
\* runs inside BaseComponent.addEventListener's wrapper, which catches and
\* logs what it throws.  scrollIntoView puts the start of the section at the
\* top of the viewport.
EnhancedNavClick(s, href) ==
    IF ~StartsWithHash(href) THEN s
    ELSE LET p == [s EXCEPT !.prevented = TRUE]
             section == HashOf(href)
         IN  IF section \in DOMAIN navMap THEN OnModalOpen(p, navMap[section])
             ELSE CASE SectionLookup(href) = "found"  -> [p EXCEPT !.scroll = "hero"]
                    [] SectionLookup(href) = "throws" -> [p EXCEPT !.diag = TRUE]
                    [] OTHER                          -> p

\* Click listener of Modal.setupEventListeners on the modal element.
EnhancedModalClick(s, m, target) ==
    IF target = "root" THEN ModalClose(s, m) ELSE s

\* Close-control listener of Modal.setupEventListeners.
EnhancedCloseClick(s, b) == ModalClose(s, b)

\* The Escape listeners of the five Modal components, in registration order.
RECURSIVE EnhancedEscapeFrom(_, _)
EnhancedEscapeFrom(s, i) ==
    IF i > Len(ModalIds) THEN s
    ELSE EnhancedEscapeFrom(ModalClose(s, ModalIds[i]), i + 1)

\* Modal.render, run for every modal by ComponentFactory.autoDiscoverComponents.
Render(s) ==
    [s EXCEPT !.aria = [m \in Modals |-> "true"],
              !.display = [m \in Modals |-> "none"]]

\* ----------------------------------------------------------------- dispatch
\* The layers attached in a configuration, in listener registration order.
Layers(b, e) ==
    IF b = "main"
    THEN <<"basic", "inline">> \o (IF e = "attached" THEN <<"enhanced">> ELSE << >>)
    ELSE <<"inline">> \o (IF e = "attached" THEN <<"enhanced">>
                          ELSE IF e = "failed" THEN <<"variant">> ELSE << >>)

OnNav(layer, s, href) ==
    CASE layer = "basic"    -> BasicResumeClick(BasicNavClick(s, href), href)
      [] layer = "inline"   -> InlineNavClick(s, href)
      [] layer = "variant"  -> VariantNavClick(s, href)
      [] layer = "enhanced" -> EnhancedNavClick(s, href)

OnClose(layer, s, b) ==
    CASE layer = "basic"    -> BasicCloseClick(s, b)
      [] layer = "inline"   -> InlineCloseClick(s, b)
      [] layer = "variant"  -> VariantCloseClick(s, b)
      [] layer = "enhanced" -> EnhancedCloseClick(s, b)

OnModalClick(layer, s, m, target) ==
    CASE layer = "basic"    -> BasicModalClick(s, m, target)
      [] layer = "inline"   -> InlineModalClick(s, m, target)
      [] layer = "variant"  -> VariantModalClick(s, m, target)
      [] layer = "enhanced" -> EnhancedModalClick(s, m, target)

OnEscape(layer, s) ==
    CASE layer = "basic"    -> BasicEscape(s)
      [] layer = "inline"   -> s
      [] layer = "variant"  -> VariantEscape(s)
      [] layer = "enhanced" -> EnhancedEscapeFrom(s, 1)

RECURSIVE RunNav(_, _, _)
RunNav(ls, s, href) ==
    IF ls = << >> THEN s ELSE RunNav(Tail(ls), OnNav(Head(ls), s, href), href)

\* The close control's listeners: the basic one, registered first, calls
\* stopImmediatePropagation, so no later listener runs.
RECURSIVE RunClose(_, _, _)
RunClose(ls, s, b) ==
    IF ls = << >> THEN s
    ELSE IF Head(ls) = "basic" THEN OnClose("basic", s, b)
    ELSE RunClose(Tail(ls), OnClose(Head(ls), s, b), b)

RECURSIVE RunModalClick(_, _, _, _)
RunModalClick(ls, s, m, target) ==
    IF ls = << >> THEN s
    ELSE RunModalClick(Tail(ls), OnModalClick(Head(ls), s, m, target), m, target)

RECURSIVE RunEscape(_, _)
RunEscape(ls, s) ==
    IF ls = << >> THEN s ELSE RunEscape(Tail(ls), OnEscape(Head(ls), s))

\* The stacking order of two rendered modals: they share one z-index (the
\* stylesheet's, or the one the open branch writes), so document order decides.
Above(a, b) == DomIndex(a) > DomIndex(b)

\* The modal a pointer can reach: rendered and not covered by another one.
Topmost(m) == IsDisplayed(m) /\ \A o \in OpenSet \ {m} : Above(m, o)

\* A timer may run when no timer scheduled before it is due sooner or at
\* the same time.
Eligible(i) ==
    \A j \in 1..(i - 1) : Delay(timers[j].kind) > Delay(timers[i].kind)

RemoveAt(q, i) == SubSeq(q, 1, i - 1) \o SubSeq(q, i + 1, Len(q))

RunTimer(s, t) ==
    CASE t.kind = "focus100"  -> BasicFocusTimer(s, t.m)
      [] t.kind = "focus50"   -> EnhancedFocusTimer(s, t.m)
      [] t.kind = "closeAnim" -> CloseCallback(s, t.m)

\* --------------------------------------------------------------- focus trap
\* trap.els lists, in document order, the descendants of the modal that match
\* the focusable selectors: TRUE for one that is enabled and rendered.
\* trap.active is the position of document.activeElement in that list, 0 for
\* an element of the modal that is not in it, -1 for one outside the modal.
\* trap.res is what the listener did with the last key: the focus it found
\* (before) and left (after), and whether it called preventDefault.
NoKey == [key |-> "none", shift |-> FALSE, before |-> 0, after |-> 0,
          prevented |-> FALSE]

TrapIdle == [els |-> << >>, active |-> -1, res |-> NoKey]

\* Modal.getFocusableElements: the matching descendants that pass the
\* filter !el.disabled && el.offsetParent !== null, in document order.
getFocusableElements(els) ==
    LET F[k \in 0..Len(els)] ==
            IF k = 0 THEN << >>
            ELSE IF els[k] THEN Append(F[k - 1], k) ELSE F[k - 1]
    IN  F[Len(els)]

\* A focus trap that wraps to the first element in both directions.
handleFocusTrap_firstOnly(els, active, key, shift) ==
    LET same == [focus |-> active, prevented |-> FALSE]
        f == getFocusableElements(els)
    IN  IF key # "Tab" THEN same
        ELSE IF Len(f) = 0 THEN same
        ELSE IF shift
             THEN IF active = f[1]
                  THEN [focus |-> f[1], prevented |-> TRUE] ELSE same
             ELSE IF active = f[Len(f)]
                  THEN [focus |-> f[1], prevented |-> TRUE] ELSE same

\* Modal.handleFocusTrap: the focus it leaves and whether it prevented the
\* key's default.
handleFocusTrap(els, active, key, shift) ==
    LET same == [focus |-> active, prevented |-> FALSE]
        f == getFocusableElements(els)
    IN  IF key # "Tab" THEN same
        ELSE IF Len(f) = 0 THEN same
        ELSE IF shift
             THEN IF active = f[1]
                  THEN [focus |-> f[Len(f)], prevented |-> TRUE] ELSE same
             ELSE IF active = f[Len(f)]
                  THEN [focus |-> f[1], prevented |-> TRUE] ELSE same

\* The browser's sequential focus navigation for a Tab that was not
\* prevented: the next (with shift, the previous) focusable element of the
\* modal, or an element outside the modal when there is none.
TabDefault(els, active, shift) ==
    LET f == getFocusableElements(els)
        after == {i \in 1..Len(f) : f[i] > active}
        before == {i \in 1..Len(f) : f[i] < active}
    IN  IF shift
        THEN IF active = 0 \/ before = {} THEN -1
             ELSE f[CHOOSE i \in before : \A j \in before : j <= i]
        ELSE IF after = {} THEN -1
             ELSE f[CHOOSE i \in after : \A j \in after : i <= j]

\* ---------------------------------------------------------------- event bus
\* Event names, callbacks and payloads the model publishes with.  The
\* callback "bad" throws when it is invoked; "null" is the default payload.
Events == {"modal:open", "modal:closed"}

Callbacks == {"f", "g", "bad"}

Data == {"null", "d1"}

Throws(cb) == cb = "bad"

\* bus.events is this.events: per event, whether the key exists and its
\* array of callbacks.  bus.pub, bus.calls and bus.propagated describe the
\* last publish: its arguments, the invocations it made in order, and
\* whether an exception reached its caller.  bus.removal tells of a removal
\* made from inside a callback of the last publish: the number of the
\* invocation that made it and the callbacks it removed.
NoPub == [event |-> "none", data |-> "null"]

NoRemoval == [at |-> 0, cbs |-> {}]

BusIdle == [events |-> [e \in Events |-> [defined |-> FALSE, cbs |-> << >>]],
            pub |-> NoPub, calls |-> << >>, propagated |-> FALSE,
            removal |-> NoRemoval]

\* EventBus.subscribe
subscribe(b, event, callback) ==
    [b EXCEPT !.events[event] = [defined |-> TRUE, cbs |-> Append(@.cbs, callback)]]

\* The function EventBus.subscribe returns: filter(cb => cb !== callback).
unsubscribe(b, event, callback) ==
    [b EXCEPT !.events[event].cbs = SelectSeq(@, LAMBDA cb : cb # callback)]

\* EventBus.clear
clear(b, event) ==
    IF b.events[event].defined THEN [b EXCEPT !.events[event].cbs = << >>] ELSE b

\* The forEach of a publish without its try/catch: the first exception ends
\* the loop and reaches the caller.
RECURSIVE InvokeAll_noCatch(_, _)
InvokeAll_noCatch(cbs, data) ==
    IF cbs = << >> THEN [calls |-> << >>, propagated |-> FALSE]
    ELSE IF Throws(Head(cbs))
         THEN [calls |-> <<[cb |-> Head(cbs), data |-> data]>>, propagated |-> TRUE]
         ELSE LET rest == InvokeAll_noCatch(Tail(cbs), data) IN
              [calls |-> <<[cb |-> Head(cbs), data |-> data]>> \o rest.calls,
               propagated |-> rest.propagated]

\* The forEach of EventBus.publish: every callback is invoked with data
\* inside a try/catch that logs what it throws.
RECURSIVE InvokeAll(_, _)
InvokeAll(cbs, data) ==
    IF cbs = << >> THEN [calls |-> << >>, propagated |-> FALSE]
    ELSE LET rest == InvokeAll(Tail(cbs), data) IN
         [calls |-> <<[cb |-> Head(cbs), data |-> data]>> \o rest.calls,
          propagated |-> rest.propagated]

\* EventBus.publish
publish(b, event, data) ==
    LET r == IF ~b.events[event].defined
             THEN [calls |-> << >>, propagated |-> FALSE]
             ELSE InvokeAll(b.events[event].cbs, data)
    IN  [b EXCEPT !.pub = [event |-> event, data |-> data],
                  !.calls = r.calls,
                  !.propagated = r.propagated,
                  !.removal = NoRemoval]

\* What a callback does to the bus when it removes: "clear" is
\* clear(event), a callback name is the unsubscribe function of that callback.
Removals == Callbacks \cup {"clear"}

Remove(b, event, victim) ==
    IF victim = "clear" THEN clear(b, event) ELSE unsubscribe(b, event, victim)

\* EventBus.publish when the callback invoked k-th removes victim from the
\* event being published.  forEach walks the array that this.events[event]
\* held when publish was entered; the removal stores another array in
\* this.events[event] and leaves the one being walked as it was.
publishRemoving(b, event, data, k, victim) ==
    LET walked == b.events[event].cbs
        p == publish(b, event, data)
        r == Remove(p, event, victim)
    IN  [r EXCEPT !.removal =
            [at |-> k,
             cbs |-> {walked[i] : i \in 1..Len(walked)}
                         \ {r.events[event].cbs[i] : i \in 1..Len(r.events[event].cbs)}]]

\* -------------------------------------------------------- application state
\* The part of AppState.state the model keeps: the top-level property
\* activeModal and the nested object navigation with its property
\* currentSection.  app.top is the state object (navigation holds a
\* reference), app.heap the objects references point to.
Refs == {"r1", "r2"}

StateKeys == {"activeModal", "navigation.currentSection"}

KeyValues(k) ==
    IF k = "activeModal" THEN {"null", "modal-projects"} ELSE {"hero", "about"}

FreshObject == [currentSection |-> "hero"]

\* app.listeners holds the keys the listeners were subscribed with, in
\* order; app.notes the listener calls of the last setState, in order:
\* [listener, new, old].
AppIdle == [top |-> [activeModal |-> "null", navigation |-> "r1"],
            heap |-> [r \in Refs |-> FreshObject],
            listeners |-> << >>, notes |-> << >>, op |-> "new"]

\* AppState.getNestedProperty on a state object, through the heap as it is.
getNestedProperty(top, heap, key) ==
    IF key = "activeModal" THEN top.activeModal
    ELSE heap[top.navigation].currentSection

\* AppState.notifyListeners for the keyed listeners.
notifyListeners(listeners, oldTop, newTop, heap) ==
    LET N[i \in 0..Len(listeners)] ==
            IF i = 0 THEN << >>
            ELSE LET oldValue == getNestedProperty(oldTop, heap, listeners[i])
                     newValue == getNestedProperty(newTop, heap, listeners[i])
                 IN  IF oldValue # newValue
                     THEN Append(N[i - 1], [listener |-> i, new |-> newValue,
                                            old |-> oldValue])
                     ELSE N[i - 1]
    IN  N[Len(listeners)]

\* AppState.setState(key, value): oldState is a shallow copy of the state
\* object, setNestedProperty writes into the objects the state holds.
setStateKey(a, key, value) ==
    LET oldTop == a.top
        newTop == IF key = "activeModal"
                  THEN [a.top EXCEPT !.activeModal = value] ELSE a.top
        newHeap == IF key = "activeModal" THEN a.heap
                   ELSE [a.heap EXCEPT ![a.top.navigation].currentSection = value]
    IN  [a EXCEPT !.top = newTop, !.heap = newHeap, !.op = "setState",
                  !.notes = notifyListeners(a.listeners, oldTop, newTop, newHeap)]

\* AppState.setState({ navigation: { currentSection: value } }): the state
\* object is replaced by a copy that holds the new navigation object.  The
\* object it replaces is unreachable once the listeners have run.
setStateObject(a, value) ==
    LET oldTop == a.top
        fresh == CHOOSE r \in Refs : r # a.top.navigation
        newTop == [a.top EXCEPT !.navigation = fresh]
        newHeap == [a.heap EXCEPT ![fresh] = [currentSection |-> value]]
    IN  [a EXCEPT !.top = newTop,
                  !.heap = [newHeap EXCEPT ![oldTop.navigation] = FreshObject],
                  !.op = "setState",
                  !.notes = notifyListeners(a.listeners, oldTop, newTop, newHeap)]

\* ------------------------------------------------------ the configuration
\* ConfigManager (scripts/factories/ComponentFactory.js).  portfolioConfig is
\* an object of objects; two of its sections and three of their entries stand
\* for all of them.  Objects are kept in a heap so that two references to one
\* object can be told from two equal objects: "d_" + k is the object that
\* portfolioConfig holds under k, "c_" + k the object that deepMerge created
\* last for k (NoObject until then, and once nothing refers to it).
ConfigKeys == {"theme", "animations"}

ConfigPaths == {"theme.primary", "theme.secondary", "animations.defaultDuration"}

\* path.split('.') for the paths above.
TopOf(path) == IF path = "animations.defaultDuration" THEN "animations" ELSE "theme"

LeafOf(path) ==
    CASE path = "theme.primary" -> "primary"
      [] path = "theme.secondary" -> "secondary"
      [] path = "animations.defaultDuration" -> "defaultDuration"

\* The values written in the portfolioConfig literal.
DefaultOf(path) ==
    CASE path = "theme.primary" -> "#e50914"
      [] path = "theme.secondary" -> "#ff9900"
      [] path = "animations.defaultDuration" -> "300"

ConfigValues == {"v1", "v2"}

NoObject == << >>

\* The module-level object literal: its top-level references ...
portfolioConfig == [k \in ConfigKeys |-> IF k = "theme" THEN "d_theme" ELSE "d_animations"]

\* ... and the heap right after the module is evaluated.
ConfigHeap ==
    [r \in {"d_theme", "d_animations", "c_theme", "c_animations"} |->
        CASE r = "d_theme" -> [primary |-> "#e50914", secondary |-> "#ff9900"]
          [] r = "d_animations" -> [defaultDuration |-> "300"]
          [] OTHER -> NoObject]

MergedRef(k) == IF k = "theme" THEN "c_theme" ELSE "c_animations"

\* Objects that the configuration no longer refers to are dropped.
Collect(config, heap) ==
    [r \in DOMAIN heap |->
        IF r \in {"c_theme", "c_animations"} /\ config[TopOf(
               IF r = "c_theme" THEN "theme.primary" ELSE "animations.defaultDuration")] # r
        THEN NoObject ELSE heap[r]]

\* this.config = { ...portfolioConfig }: a copy of the top-level references.
ShallowCopy(c) ==
    [c EXCEPT !.config = portfolioConfig, !.heap = Collect(portfolioConfig, c.heap)]

\* new ConfigManager()
\* cfg.observers holds the paths the observers were subscribed with ("*"
\* when none was given), cfg.notified those of the observers that the last
\* operation called.
ObserverPaths == {"theme.primary", "animations.defaultDuration", "*"}

ConfigIdle == [config |-> portfolioConfig, heap |-> ConfigHeap, op |-> "new",
               observers |-> {}, notified |-> {}]

\* ConfigManager.subscribe(callback, path)
configSubscribe(c, path) ==
    [c EXCEPT !.observers = @ \cup {path}, !.notified = {}, !.op = "subscribe"]

\* The function ConfigManager.subscribe returns.
configUnsubscribe(c, path) ==
    [c EXCEPT !.observers = @ \ {path}, !.notified = {}, !.op = "unsubscribe"]

\* ConfigManager.notifyObservers(path, ...): the observers it calls.
notifyObservers(c, path) == {o \in c.observers : o = "*" \/ o = path}

\* ConfigManager.get(path) -> getNestedValue(this.config, path)
getNestedValue(c, path) == c.heap[c.config[TopOf(path)]][LeafOf(path)]

\* setNestedValue(this.config, path, value): the walk returns the object that
\* this.config holds under the first key, and the entry is assigned in it.
setNestedValue(c, path, value) ==
    [c EXCEPT !.heap[c.config[TopOf(path)]][LeafOf(path)] = value]

\* ConfigManager.set(path, value)
configSet(c, path, value) ==
    [setNestedValue(c, path, value) EXCEPT !.op = "set",
                                           !.notified = notifyObservers(c, path)]

\* ConfigManager.update({ top: { leaf: value } }): deepMerge copies the
\* top-level object and, under the key of the update, a merged copy of the
\* object it held there.
deepMerge(c, path, value) ==
    LET k == TopOf(path)
        merged == [c.heap[c.config[k]] EXCEPT ![LeafOf(path)] = value]
        config == [c.config EXCEPT ![k] = MergedRef(k)]
    IN  [c EXCEPT !.config = config,
                  !.heap = Collect(config, [c.heap EXCEPT ![MergedRef(k)] = merged])]

configUpdate(c, path, value) ==
    [deepMerge(c, path, value) EXCEPT !.op = "update",
                                      !.notified = notifyObservers(c, "*")]

\* The strings import() is called with: the JSON text of an update, and a
\* text that JSON.parse rejects.
JsonStrings ==
    [parses : {TRUE}, path : ConfigPaths, value : ConfigValues]
        \cup {[parses |-> FALSE]}

\* ConfigManager.import(jsonString): a string that JSON.parse rejects throws
\* and changes nothing, any other goes to update().
configImport(c, json) ==
    IF ~json.parses THEN [c EXCEPT !.op = "import failed", !.notified = {}]
    ELSE [configUpdate(c, json.path, json.value) EXCEPT !.op = "import"]

\* ConfigManager.reset()
configReset(c) ==
    [ShallowCopy(c) EXCEPT !.op = "reset", !.notified = notifyObservers(c, "*")]

\* ---------------------------------------------------------- the error handler
\* ErrorHandler (utils/ErrorHandler.js).  An error is a code and a context.
\* Context "c1" is plain data; "e1" and "e2" are the contexts
\* { originalError: error } that handleError builds around two different
\* Error objects.
ErrorCodes == {"NETWORK_ERROR", "GENERIC_ERROR", "VALIDATION_ERROR", "CONFIG_ERROR"}

Contexts == {"c1", "e1", "e2"}

ErrorSet ==
    {[code |-> "NETWORK_ERROR", context |-> "c1"],
     [code |-> "GENERIC_ERROR", context |-> "e1"],
     [code |-> "GENERIC_ERROR", context |-> "e2"],
     [code |-> "VALIDATION_ERROR", context |-> "c1"],
     [code |-> "CONFIG_ERROR", context |-> "c1"]}

\* JSON.stringify(error.context): an Error object has no enumerable property
\* of its own, so both wrapped contexts give the same text.
Stringify(context) ==
    IF context = "c1" THEN "{\"url\":\"u1\"}" ELSE "{\"originalError\":{}}"

\* `${error.code}-${JSON.stringify(error.context)}`
RetryKey(error) == <<error.code, Stringify(error.context)>>

RetryKeys == {RetryKey(e) : e \in ErrorSet}

nonRetryableErrors == {"VALIDATION_ERROR", "CONFIG_ERROR"}

Fallbacks == {"none", "value", "throws"}

NoError == [code |-> "none", context |-> "none"]

\* The keys of ErrorHandler.handlers, and the handler functions of the
\* model: "bad" throws (or returns a promise that rejects).
HandlerCodes == {"NETWORK_ERROR", "VALIDATION_ERROR", "*"}

HandlerIds == {"h1", "h2", "bad"}

NoHandlers == [c \in HandlerCodes |-> << >>]

\* this.handlers.get(code) || []
HandlersFor(handlers, code) ==
    IF code \in HandlerCodes THEN handlers[code] ELSE << >>

\* ErrorHandler.registerHandler
registerHandler(handlers, code, handler) ==
    [handlers EXCEPT ![code] = Append(@, handler)]

\* ErrorHandler.unregisterHandler: indexOf and splice take out the first
\* registration of the handler under the code.
unregisterHandler(handlers, code, handler) ==
    LET hs == handlers[code]
        at == {i \in 1..Len(hs) : hs[i] = handler}
    IN  IF at = {} THEN handlers
        ELSE LET i == CHOOSE j \in at : \A k \in at : j <= k
             IN  [handlers EXCEPT ![code] = SubSeq(hs, 1, i - 1) \o SubSeq(hs, i + 1, Len(hs))]

\* A loop over the handlers that lets the first exception through.
RECURSIVE RunHandlers_noCatch(_, _)
RunHandlers_noCatch(hs, done) ==
    IF hs = << >> THEN [ran |-> done, caught |-> 0, thrown |-> FALSE]
    ELSE IF Head(hs) = "bad"
         THEN [ran |-> Append(done, "bad"), caught |-> 0, thrown |-> TRUE]
         ELSE RunHandlers_noCatch(Tail(hs), Append(done, Head(hs)))

\* The loop of executeHandlers: the handlers invoked, in order, how many
\* exceptions were caught and logged, and whether one got out of the loop.
RECURSIVE RunHandlers(_, _)
RunHandlers(hs, done) ==
    IF hs = << >> THEN [ran |-> done, caught |-> 0, thrown |-> FALSE]
    ELSE LET rest == RunHandlers(Tail(hs), Append(done, Head(hs)))
         IN  IF Head(hs) = "bad" THEN [rest EXCEPT !.caught = @ + 1] ELSE rest

\* ErrorHandler.executeHandlers
executeHandlers(handlers, error) ==
    RunHandlers(HandlersFor(handlers, error.code) \o HandlersFor(handlers, "*"), << >>)

\* new ErrorHandler().  arrivals and sinceClear count the errors handled, in
\* all and since the queue was last cleared; run is the current series of
\* calls for one error with the same retry options, and how many of them
\* returned a retry signal so far; res is how the last call settled ("none"
\* again once the handlers were changed): what it returned, or "rejected",
\* the handlers it invoked and the exceptions it caught and logged.
NoResult == [kind |-> "none", before |-> 0, fallback |-> "none", ran |-> << >>,
             caught |-> 0]

ErrorsIdle ==
    [handlers |-> NoHandlers,
     errorQueue |-> << >>,
     retryAttempts |-> [k \in RetryKeys |-> 0],
     arrivals |-> 0, sinceClear |-> 0,
     run |-> [error |-> NoError, retry |-> FALSE, maxRetries |-> 0, n |-> 0],
     res |-> NoResult]

addToQueue_noShift(queue, entry) == Append(queue, entry)

\* ErrorHandler.addToQueue
addToQueue(queue, entry) ==
    LET pushed == Append(queue, entry)
    IN  IF Len(pushed) > maxQueueSize THEN Tail(pushed) ELSE pushed

shouldRetry_noLimit(attempts, error, maxRetries) ==
    [ok |-> error.code \notin nonRetryableErrors, attempts |-> attempts]

\* ErrorHandler.shouldRetry: the answer, and the attempts map it leaves.
shouldRetry(attempts, error, maxRetries) ==
    LET key == RetryKey(error) IN
    IF attempts[key] >= maxRetries
    THEN [ok |-> FALSE, attempts |-> [attempts EXCEPT ![key] = 0]]
    ELSE [ok |-> error.code \notin nonRetryableErrors, attempts |-> attempts]

\* ErrorHandler.retryOperation: the attempts map after the call.  The delay
\* that follows only postpones the resolution of the returned promise.
retryOperation(attempts, error) ==
    [attempts EXCEPT ![RetryKey(error)] = @ + 1]

\* ErrorHandler.handleError(error, { retry, maxRetries, fallback }).  The
\* error is queued before the first await; from the retry test to the update
\* of the attempts map nothing is awaited, so calls cannot interleave there.
handleError(h, error, retry, maxRetries, fallback) ==
    LET queue == addToQueue(h.errorQueue,
                            [error |-> error, arrival |-> h.arrivals + 1])
        exec == executeHandlers(h.handlers, error)
        test == IF retry /\ ~exec.thrown
                THEN shouldRetry(h.retryAttempts, error, maxRetries)
                ELSE [ok |-> FALSE, attempts |-> h.retryAttempts]
        kind == IF exec.thrown THEN "rejected"
                ELSE IF test.ok THEN "retry"
                ELSE IF fallback = "value" THEN "fallback" ELSE "error"
        same == /\ h.run.error = error /\ h.run.retry /\ retry
                /\ h.run.maxRetries = maxRetries
        before == IF same THEN h.run.n ELSE 0
    IN  [handlers |-> h.handlers,
         errorQueue |-> queue,
         retryAttempts |-> IF test.ok THEN retryOperation(test.attempts, error)
                           ELSE test.attempts,
         arrivals |-> h.arrivals + 1, sinceClear |-> h.sinceClear + 1,
         run |-> [error |-> error, retry |-> retry, maxRetries |-> maxRetries,
                  n |-> IF test.ok THEN before + 1 ELSE 0],
         res |-> [kind |-> kind, before |-> before, fallback |-> fallback,
                  ran |-> exec.ran,
                  caught |-> exec.caught +
                             IF kind = "error" /\ fallback = "throws" THEN 1 ELSE 0]]

\* ErrorHandler.clearQueue
clearQueue(h) ==
    [ErrorsIdle EXCEPT !.arrivals = h.arrivals, !.handlers = h.handlers]

\* ------------------------------------------------------- the base component
\* BaseComponent (components/BaseComponent.js): a component and one child
\* component of it.  Every addEventListener call wraps its handler anew, so
\* the listeners are counted per target and event: eventListeners is the
\* component's registry, attached what the targets really hold of it.
Comps == {"parent", "child"}

ListenerKeys == {"element-click", "document-keydown"}

NoListeners == [k \in ListenerKeys |-> 0]

\* How an init() call goes: through, or with setupEventListeners or render
\* throwing in a subclass.
InitOutcomes == {"ok", "setupThrows", "renderThrows"}

\* new BaseComponent(element): inDom says that the element has a parentNode.
NewComponent ==
    [isInitialized |-> FALSE, eventListeners |-> NoListeners,
     attached |-> NoListeners, childComponents |-> {}, inDom |-> TRUE]

CompIdle ==
    [of |-> [c \in Comps |-> NewComponent],
     last |-> [op |-> "new", c |-> "parent", children |-> {}]]

\* BaseComponent.addEventListener(target, event, handler)
addEventListener(x, key) ==
    [x EXCEPT !.eventListeners[key] = @ + 1, !.attached[key] = @ + 1]

\* BaseComponent.removeEventListener(target, event)
removeEventListener(x, key) ==
    [x EXCEPT !.eventListeners[key] = 0,
              !.attached[key] = @ - x.eventListeners[key]]

\* BaseComponent.init(), with a setupEventListeners that registers a click
\* listener on the element and then a keydown listener on the document.
init(x, outcome) ==
    IF x.isInitialized THEN x
    ELSE CASE outcome = "setupThrows" -> addEventListener(x, "element-click")
           [] outcome = "renderThrows" ->
                  addEventListener(addEventListener(x, "element-click"),
                                   "document-keydown")
           [] OTHER ->
                  [addEventListener(addEventListener(x, "element-click"),
                                    "document-keydown")
                      EXCEPT !.isInitialized = TRUE]

\* BaseComponent.destroy() of a component that has no child at that time.
destroyLeaf(x) ==
    IF ~x.isInitialized THEN x
    ELSE [x EXCEPT !.eventListeners = NoListeners,
                   !.attached = [k \in ListenerKeys |-> @[k] - x.eventListeners[k]],
                   !.childComponents = {},
                   !.inDom = FALSE,
                   !.isInitialized = FALSE]

\* BaseComponent.destroy(): the children are destroyed first.  Only the
\* parent has children, so the recursion ends after one level.
destroy(of, c) ==
    IF ~of[c].isInitialized THEN of
    ELSE [d \in Comps |->
             IF d = c \/ d \in of[c].childComponents THEN destroyLeaf(of[d])
             ELSE of[d]]

\* BaseComponent.removeChild(component), destroyOnRemove being the default.
removeChild(of, c, d) ==
    destroy([of EXCEPT ![c].childComponents = @ \ {d}], d)

\* ------------------------------------------------------------ the animations
\* AnimationManager and its strategies (animations/).  Every strategy starts
\* one Web Animation on the element and resolves its promise in onfinish.
\* calls lists the animate() calls made, each with its element and with
\* "pending" until its promise settles; activeAnimations maps an element to
\* the call whose promise it holds (0 for no entry); running is what
\* element.getAnimations() holds of these calls.  States are taken between
\* tasks: a continuation that only waits for microtasks has run.
AnimElements == {"e1", "e2"}

\* A value that fails AnimationStrategy.validate.
NoElement == "null"

Strategies == {"fade", "unknown"}

AnimIdle ==
    [calls |-> << >>,
     activeAnimations |-> [el \in AnimElements |-> 0],
     running |-> [el \in AnimElements |-> {}],
     op |-> "new"]

\* AnimationManager.cancelAnimation(element): animation.cancel() fires no
\* finish event.
cancelAnimation(a, el) ==
    IF el \notin AnimElements \/ a.activeAnimations[el] = 0 THEN a
    ELSE [a EXCEPT !.running[el] = {}, !.activeAnimations[el] = 0]

\* AnimationManager.cancelAllAnimations
cancelAllAnimations(a) ==
    [a EXCEPT !.running = [el \in AnimElements |->
                              IF a.activeAnimations[el] = 0 THEN @[el] ELSE {}],
              !.activeAnimations = [el \in AnimElements |-> 0]]

\* AnimationManager.animate(strategyName, element): an unknown strategy and
\* an invalid element reject the call; otherwise the element's animation is
\* cancelled, the new one started and its promise stored.
animate(a, strategyName, el) ==
    LET id == Len(a.calls) + 1 IN
    IF strategyName = "unknown" \/ el = NoElement
    THEN [a EXCEPT !.calls = Append(@, [el |-> el, status |-> "rejected"])]
    ELSE LET c == cancelAnimation(a, el)
         IN  [c EXCEPT !.calls = Append(@, [el |-> el, status |-> "pending"]),
                       !.running[el] = {id},
                       !.activeAnimations[el] = id]

\* The continuation of animate() that leaves the entry of the element.
onFinish_keepEntry(a, id) ==
    [a EXCEPT !.calls[id].status = "resolved",
              !.running[a.calls[id].el] = @ \ {id}]

\* animation.onfinish of call id, and the continuation of animate() after
\* its await: the entry of the element is deleted and the call resolves.
onFinish(a, id) ==
    [a EXCEPT !.calls[id].status = "resolved",
              !.running[a.calls[id].el] = @ \ {id},
              !.activeAnimations[a.calls[id].el] = 0]

\* AnimationManager.getActiveCount
getActiveCount(a) == Cardinality({el \in AnimElements : a.activeAnimations[el] # 0})

\* ----------------------------------------------------------------- the logger
\* Logger (core/Logger.js).  An entry of logs is the level it was logged
\* with, its number among the entries recorded, and the level that was
\* current then.
LogLevels == {"ERROR", "WARN", "INFO", "DEBUG"}

\* this.levels
levels ==
    [l \in LogLevels |->
        CASE l = "ERROR" -> 0 [] l = "WARN" -> 1 [] l = "INFO" -> 2 [] l = "DEBUG" -> 3]

\* new Logger(): the current level is INFO.  recorded and sinceClear count
\* the entries recorded, in all and since the log was last cleared.
LoggerIdle == [currentLevel |-> levels["INFO"], logs |-> << >>, recorded |-> 0,
               sinceClear |-> 0]

\* Logger.setLevel
setLevel(g, level) ==
    IF level \in LogLevels THEN [g EXCEPT !.currentLevel = levels[level]] ELSE g

keepRecent_oldest(logs) ==
    IF Len(logs) > maxLogs THEN SubSeq(logs, 1, maxLogs) ELSE logs

\* this.logs = this.logs.slice(-this.maxLogs), when the log is too long
keepRecent(logs) ==
    IF Len(logs) > maxLogs THEN SubSeq(logs, Len(logs) - maxLogs + 1, Len(logs))
    ELSE logs

\* Logger.log(level, message, data): for a level that this.levels does not
\* hold the comparison is with undefined, and false.
log(g, level) ==
    IF level \in LogLevels /\ levels[level] <= g.currentLevel
    THEN [g EXCEPT !.logs = keepRecent(Append(@, [level |-> level,
                                                   n |-> g.recorded + 1,
                                                   current |-> g.currentLevel])),
                   !.recorded = @ + 1, !.sinceClear = @ + 1]
    ELSE g

\* Logger.clear
clearLogs(g) == [g EXCEPT !.logs = << >>, !.sinceClear = 0]

\* Every service singleton as its module leaves it.
ServicesIdle ==
    /\ cfg = ConfigIdle /\ errs = ErrorsIdle /\ comp = CompIdle
    /\ anim = AnimIdle /\ logger = LoggerIdle

\* No 'modal:opened' or 'modal:closed' event published yet.
EvtIdle == [lastEvent |-> [m \in Modals |-> "none"], alternate |-> TRUE]

\* The record of the events after those of one step, in publication order.
RECURSIVE Track(_, _)
Track(e, published) ==
    IF published = << >> THEN e
    ELSE LET p == Head(published)
             expected == IF p.event = "modal:opened" THEN {"none", "modal:closed"}
                         ELSE {"modal:opened"}
         IN  Track([lastEvent |-> [e.lastEvent EXCEPT ![p.m] = p.event],
                    alternate |-> e.alternate /\ e.lastEvent[p.m] \in expected],
                   Tail(published))

\* -------------------------------------------------------------- transitions
Commit(s, op, m) ==
    LET t == Settle(s) IN
    /\ Len(t.timers) <= MaxTimers
    /\ display' = t.display
    /\ aria' = t.aria
    /\ overflow' = t.overflow
    /\ focus' = t.focus
    /\ prevFocused' = t.prevFocused
    /\ activeModal' = t.activeModal
    /\ timers' = t.timers
    /\ scroll' = t.scroll
    /\ UNCHANGED <<trap, bus, app, svcVars>>
    /\ last' = [op |-> op, m |-> m, prevented |-> t.prevented, diag |-> t.diag]

Init ==
    /\ boot \in {"main", "variant"}
    /\ enhanced = "loading"
    /\ display = [m \in Modals |-> ""]
    /\ aria = [m \in Modals |-> "unset"]
    /\ overflow = ""
    /\ focus = "body"
    /\ prevFocused = [m \in Modals |-> "null"]
    /\ activeModal = "null"
    /\ timers = << >>
    /\ scroll = "top"
    /\ trap = TrapIdle
    /\ bus = BusIdle
    /\ app = AppIdle
    /\ ServicesIdle
    /\ last = [op |-> "load", m |-> "none", prevented |-> FALSE, diag |-> FALSE]
    /\ rt = [m |-> "none", overflow |-> "", focus |-> "body"]
    /\ evt = EvtIdle

\* The browser's own handling of an activated link once its listeners have
\* run, unless one of them called preventDefault: a fragment link moves the
\* viewport to its target ("#hero": the section; "#": the document top).
DefaultAction(s, href) ==
    IF s.prevented THEN s
    ELSE CASE href = "#hero" -> [s EXCEPT !.scroll = "hero"]
           [] href = "#"     -> [s EXCEPT !.scroll = "top"]
           [] OTHER          -> s

\* A navigation link is activated (Enter on the focused link, or a pointer
\* click, which focuses it); the link has focus when its listeners run.
\* With track, the step that opens a closed modal is recorded in rt.
NavClick(href, track) ==
    LET s0 == [Cur EXCEPT !.focus = href]
        s1 == RunNav(Layers(boot, enhanced), s0, href)
        hash == HashOf(href)
    IN  /\ Commit(DefaultAction(s1, href), "nav", href)
        /\ rt' = IF track /\ hash \in DOMAIN navMap /\ ~IsDisplayed(navMap[hash])
                    /\ Shown(s1, navMap[hash])
                 THEN [m |-> navMap[hash], overflow |-> overflow, focus |-> s0.focus]
                 ELSE rt
        /\ UNCHANGED <<boot, enhanced, evt>>

\* The close control of a reachable modal is clicked.
CloseClick(b) ==
    /\ Topmost(b)
    /\ Commit(RunClose(Layers(boot, enhanced), Cur, b), "closeClick", b)
    /\ UNCHANGED <<boot, enhanced, rt, evt>>

\* A reachable modal is clicked on its backdrop (target "root") or inside its
\* content panel, away from the close control (target "content").
ModalClick(m, target) ==
    /\ Topmost(m)
    /\ Commit(RunModalClick(Layers(boot, enhanced), Cur, m, target), target, m)
    /\ UNCHANGED <<boot, enhanced, rt, evt>>

\* The Escape key is pressed.
EscapeKey ==
    /\ Commit(RunEscape(Layers(boot, enhanced), Cur), "escape", "none")
    /\ UNCHANGED <<boot, enhanced, rt, evt>>

\* A pending timer runs its callback.
TimerFire(i) ==
    /\ i \in 1..Len(timers)
    /\ Eligible(i)
    /\ Commit(RunTimer([Cur EXCEPT !.timers = RemoveAt(@, i)], timers[i]),
              timers[i].kind, timers[i].m)
    /\ UNCHANGED <<boot, enhanced, rt, evt>>

\* import('./app.js') resolves: PortfolioApp.init subscribes to the bus and
\* creates and initialises a component for every modal and for the nav.
AttachEnhanced ==
    /\ enhanced = "loading"
    /\ enhanced' = "attached"
    /\ Commit(Render(Cur), "attach", "none")
    /\ UNCHANGED <<boot, rt, evt>>

\* import('./app.js') rejects.
LoadFail ==
    /\ enhanced = "loading"
    /\ enhanced' = "failed"
    /\ Commit(Cur, "loadFail", "none")
    /\ UNCHANGED <<boot, rt, evt>>

\* The steps other than the activation of a navigation link.
Other ==
    \/ \E b \in Modals : CloseClick(b)
    \/ \E m \in Modals, target \in {"root", "content"} : ModalClick(m, target)
    \/ EscapeKey
    \/ \E i \in 1..MaxTimers : TimerFire(i)
    \/ AttachEnhanced
    \/ LoadFail

Next ==
    \/ \E href \in NavHrefs : NavClick(href, FALSE)
    \/ Other

NextRoundTrip ==
    \/ \E href \in NavHrefs : NavClick(href, TRUE)
    \/ Other

\* The page under user input, timers and the outcome of the module import.
Spec == Init /\ [][Next]_vars

\* The same page, with every opening of a closed modal recorded in rt.
SpecRoundTrip == Init /\ [][NextRoundTrip]_vars

\* The user scrolls the document.
UserScroll(pos) ==
    /\ scroll # pos
    /\ Commit([Cur EXCEPT !.scroll = pos], "scroll", "none")
    /\ UNCHANGED <<boot, enhanced, rt, evt>>

NextScroll ==
    \/ \E pos \in {"top", "hero", "below"} : UserScroll(pos)
    \/ Next

\* The same page on a viewport the document does not fit in, so that the
\* user can scroll it.
SpecScroll == Init /\ [][NextScroll]_vars

\* ------------------------------------- the enhanced layer driven directly
\* An id under which no component is registered.
UnknownId == "modal-unknown"

\* The page once PortfolioApp has initialised: every modal rendered by its
\* component, nothing displayed.
PageAttached ==
    /\ boot = "main"
    /\ enhanced = "attached"
    /\ display = [m \in Modals |-> "none"]
    /\ aria = [m \in Modals |-> "true"]
    /\ overflow = ""
    /\ focus = "body"
    /\ prevFocused = [m \in Modals |-> "null"]
    /\ activeModal = "null"
    /\ timers = << >>
    /\ scroll = "top"
    /\ last = [op |-> "attach", m |-> "none", prevented |-> FALSE, diag |-> FALSE]
    /\ rt = [m |-> "none", overflow |-> "", focus |-> "body"]
    /\ evt = EvtIdle

InitModal ==
    PageAttached /\ trap = TrapIdle /\ bus = BusIdle /\ app = AppIdle /\ ServicesIdle

\* EventBus.publish('modal:open', { modalId: id })
ApiOpen(id) ==
    /\ Commit(OnModalOpen(Cur, id), "apiOpen", id)
    /\ UNCHANGED <<boot, enhanced, rt, evt>>

\* The close() of the component of modal m.
ApiClose(m) ==
    /\ Commit(ModalClose(Cur, m), "apiClose", m)
    /\ UNCHANGED <<boot, enhanced, rt, evt>>

NextModal ==
    \/ \E id \in Modals \cup {UnknownId} : ApiOpen(id)
    \/ \E m \in Modals : ApiClose(m)
    \/ \E i \in 1..MaxTimers : TimerFire(i)

\* The Modal components and the PortfolioApp subscribers on their own.
SpecModal == InitModal /\ [][NextModal]_vars

\* Two of the Modal components - one with a focusable element, one without -
\* under the event loop's guarantee that a callback handed to setTimeout runs
\* once its delay has elapsed.
FairModals == {"modal-projects", "modal-contact"}

\* The steps of the enhanced layer, with the events they publish recorded.
TrackedOpen(id) ==
    LET s == OnModalOpen(Cur, id) IN
    /\ Commit(s, "apiOpen", id)
    /\ evt' = Track(evt, s.published)
    /\ UNCHANGED <<boot, enhanced, rt>>

TrackedClose(m) ==
    LET s == ModalClose(Cur, m) IN
    /\ Commit(s, "apiClose", m)
    /\ evt' = Track(evt, s.published)
    /\ UNCHANGED <<boot, enhanced, rt>>

TrackedTimer(i) ==
    /\ i \in 1..Len(timers)
    /\ Eligible(i)
    /\ LET s == RunTimer([Cur EXCEPT !.timers = RemoveAt(@, i)], timers[i]) IN
       /\ Commit(s, timers[i].kind, timers[i].m)
       /\ evt' = Track(evt, s.published)
    /\ UNCHANGED <<boot, enhanced, rt>>

NextModalFair ==
    \/ \E id \in FairModals : TrackedOpen(id)
    \/ \E m \in FairModals : TrackedClose(m)
    \/ \E i \in 1..MaxTimers : TrackedTimer(i)

SpecModalFair ==
    InitModal /\ [][NextModalFair]_vars /\ \A i \in 1..MaxTimers : WF_vars(TrackedTimer(i))

\* ------------------------------------------------- the focus trap on its own
\* A modal with any list of matching descendants, focus on the modal.
InitTrap ==
    /\ PageAttached /\ bus = BusIdle /\ app = AppIdle /\ ServicesIdle
    /\ \E n \in 0..MaxElems : \E els \in [1..n -> BOOLEAN] :
           trap = [els |-> els, active |-> 0, res |-> NoKey]

\* A key goes down while focus is inside the modal: the listener runs, then
\* the browser handles a Tab that was not prevented.
TrapKey(key, shift) ==
    /\ trap.active # -1
    /\ LET r == handleFocusTrap(trap.els, trap.active, key, shift)
           landed == IF key = "Tab" /\ ~r.prevented
                     THEN TabDefault(trap.els, r.focus, shift) ELSE r.focus
       IN  trap' = [trap EXCEPT !.active = landed,
                                !.res = [key |-> key, shift |-> shift,
                                         before |-> trap.active, after |-> r.focus,
                                         prevented |-> r.prevented]]
    /\ UNCHANGED <<pageVars, bus, app, svcVars>>

\* Focus is put on an element of the modal (pointer, or focus()).
TrapFocus(i) ==
    /\ i \in 0..Len(trap.els)
    /\ i # trap.active
    /\ IF i = 0 THEN TRUE ELSE trap.els[i]
    /\ trap' = [trap EXCEPT !.active = i, !.res = NoKey]
    /\ UNCHANGED <<pageVars, bus, app, svcVars>>

NextTrap ==
    \/ \E key \in {"Tab", "Enter"}, shift \in BOOLEAN : TrapKey(key, shift)
    \/ \E i \in 0..MaxElems : TrapFocus(i)

SpecTrap == InitTrap /\ [][NextTrap]_vars

\* -------------------------------------------------- the event bus on its own
InitBus ==
    PageAttached /\ trap = TrapIdle /\ bus = BusIdle /\ app = AppIdle /\ ServicesIdle

\* The record of the last publish is dropped by a step that is no publish.
Forget(b) ==
    [b EXCEPT !.pub = NoPub, !.calls = << >>, !.propagated = FALSE,
              !.removal = NoRemoval]

BusSubscribe(event, callback) ==
    /\ Len(bus.events[event].cbs) < MaxSubs
    /\ bus' = Forget(subscribe(bus, event, callback))
    /\ UNCHANGED <<pageVars, trap, app, svcVars>>

\* An unsubscribe function that subscribe returned is called.
BusUnsubscribe(event, callback) ==
    /\ \E i \in 1..Len(bus.events[event].cbs) : bus.events[event].cbs[i] = callback
    /\ bus' = Forget(unsubscribe(bus, event, callback))
    /\ UNCHANGED <<pageVars, trap, app, svcVars>>

BusClear(event) ==
    /\ bus.events[event].cbs # << >>
    /\ bus' = Forget(clear(bus, event))
    /\ UNCHANGED <<pageVars, trap, app, svcVars>>

BusPublish(event, data) ==
    /\ bus' = publish(bus, event, data)
    /\ UNCHANGED <<pageVars, trap, app, svcVars>>

NextBus ==
    \/ \E event \in Events, callback \in Callbacks : BusSubscribe(event, callback)
    \/ \E event \in Events, callback \in Callbacks : BusUnsubscribe(event, callback)
    \/ \E event \in Events : BusClear(event)
    \/ \E event \in Events, data \in Data : BusPublish(event, data)

SpecBus == InitBus /\ [][NextBus]_vars

\* A publish during which the callback invoked k-th removes victim.
BusPublishRemoving(event, data, k, victim) ==
    /\ k \in 1..Len(bus.events[event].cbs)
    /\ bus' = publishRemoving(bus, event, data, k, victim)
    /\ UNCHANGED <<pageVars, trap, app, svcVars>>

NextBusNested ==
    \/ \E event \in Events, callback \in Callbacks : BusSubscribe(event, callback)
    \/ \E event \in Events, callback \in Callbacks : BusUnsubscribe(event, callback)
    \/ \E event \in Events : BusClear(event)
    \/ \E event \in Events, data \in Data : BusPublish(event, data)
    \/ \E event \in Events, data \in Data, k \in 1..MaxSubs, victim \in Removals :
           BusPublishRemoving(event, data, k, victim)

\* The bus with callbacks that remove subscriptions while they run.
SpecBusNested == InitBus /\ [][NextBusNested]_vars

\* ------------------------------------------ the application state on its own
InitState ==
    PageAttached /\ trap = TrapIdle /\ bus = BusIdle /\ app = AppIdle /\ ServicesIdle

\* AppState.subscribe(listener, key)
AppSubscribe(key) ==
    /\ Len(app.listeners) < MaxListeners
    /\ app' = [app EXCEPT !.listeners = Append(@, key), !.op = "subscribe"]
    /\ UNCHANGED <<pageVars, trap, bus, svcVars>>

AppSetKey(key, value) ==
    /\ app' = setStateKey(app, key, value)
    /\ UNCHANGED <<pageVars, trap, bus, svcVars>>

AppSetObject(value) ==
    /\ app' = setStateObject(app, value)
    /\ UNCHANGED <<pageVars, trap, bus, svcVars>>

NextState ==
    \/ \E key \in StateKeys : AppSubscribe(key)
    \/ \E key \in StateKeys : \E value \in KeyValues(key) : AppSetKey(key, value)
    \/ \E value \in KeyValues("navigation.currentSection") : AppSetObject(value)

SpecState == InitState /\ [][NextState]_vars

\* ------------------------------------------------ the configuration on its own
\* Every service singleton just constructed, beside the attached page.
InitServices ==
    PageAttached /\ trap = TrapIdle /\ bus = BusIdle /\ app = AppIdle /\ ServicesIdle

ConfigSet(path, value) ==
    /\ cfg' = configSet(cfg, path, value)
    /\ UNCHANGED <<pageVars, trap, bus, app, errs, comp, anim, logger>>

ConfigUpdate(path, value) ==
    /\ cfg' = configUpdate(cfg, path, value)
    /\ UNCHANGED <<pageVars, trap, bus, app, errs, comp, anim, logger>>

ConfigReset ==
    /\ cfg' = configReset(cfg)
    /\ UNCHANGED <<pageVars, trap, bus, app, errs, comp, anim, logger>>

NextConfig ==
    \/ \E path \in ConfigPaths : \E value \in ConfigValues \cup {DefaultOf(path)} :
           ConfigSet(path, value)
    \/ \E path \in ConfigPaths : \E value \in ConfigValues : ConfigUpdate(path, value)
    \/ ConfigReset

SpecConfig == InitServices /\ [][NextConfig]_vars

\* The configuration with observers.
ConfigSubscribe(path) ==
    /\ cfg' = configSubscribe(cfg, path)
    /\ UNCHANGED <<pageVars, trap, bus, app, errs, comp, anim, logger>>

ConfigUnsubscribe(path) ==
    /\ path \in cfg.observers
    /\ cfg' = configUnsubscribe(cfg, path)
    /\ UNCHANGED <<pageVars, trap, bus, app, errs, comp, anim, logger>>

ConfigImport(json) ==
    /\ cfg' = configImport(cfg, json)
    /\ UNCHANGED <<pageVars, trap, bus, app, errs, comp, anim, logger>>

NextConfigObserved ==
    \/ \E path \in ObserverPaths : ConfigSubscribe(path)
    \/ \E path \in ObserverPaths : ConfigUnsubscribe(path)
    \/ \E path \in ConfigPaths : \E value \in ConfigValues \cup {DefaultOf(path)} :
           ConfigSet(path, value)
    \/ \E path \in ConfigPaths : \E value \in ConfigValues : ConfigUpdate(path, value)
    \/ \E json \in JsonStrings : ConfigImport(json)
    \/ ConfigReset

SpecConfigObserved == InitServices /\ [][NextConfigObserved]_vars

\* ---------------------------------------------- the error handler on its own
HandleError(error, retry, maxRetries, fallback) ==
    /\ errs.arrivals < MaxArrivals
    /\ errs' = handleError(errs, error, retry, maxRetries, fallback)
    /\ UNCHANGED <<pageVars, trap, bus, app, cfg, comp, anim, logger>>

ClearQueue ==
    /\ errs' = clearQueue(errs)
    /\ UNCHANGED <<pageVars, trap, bus, app, cfg, comp, anim, logger>>

NextErrors ==
    \/ \E error \in ErrorSet : \E retry \in BOOLEAN :
       \E maxRetries \in 0..MaxRetries : \E fallback \in Fallbacks :
           HandleError(error, retry, maxRetries, fallback)
    \/ ClearQueue

SpecErrors == InitServices /\ [][NextErrors]_vars

\* ------------------------------------- the error handler with its handlers
RegisterHandler(code, handler) ==
    /\ Len(errs.handlers["NETWORK_ERROR"]) + Len(errs.handlers["VALIDATION_ERROR"])
           + Len(errs.handlers["*"]) < MaxRegistered
    /\ errs' = [errs EXCEPT !.handlers = registerHandler(@, code, handler),
                            !.res = NoResult]
    /\ UNCHANGED <<pageVars, trap, bus, app, cfg, comp, anim, logger>>

UnregisterHandler(code, handler) ==
    /\ errs' = [errs EXCEPT !.handlers = unregisterHandler(@, code, handler),
                            !.res = NoResult]
    /\ UNCHANGED <<pageVars, trap, bus, app, cfg, comp, anim, logger>>

\* Errors of two codes are handled, with and without retry.
NextHandlers ==
    \/ \E code \in HandlerCodes : \E handler \in HandlerIds :
           RegisterHandler(code, handler)
    \/ \E code \in HandlerCodes : \E handler \in HandlerIds :
           UnregisterHandler(code, handler)
    \/ \E error \in {e \in ErrorSet : e.context = "c1" /\ e.code \in HandlerCodes} :
       \E retry \in BOOLEAN : \E fallback \in Fallbacks :
           HandleError(error, retry, MaxRetries, fallback)

SpecHandlers == InitServices /\ [][NextHandlers]_vars

\* ----------------------------------------------- the base component on its own
CompAfter(of, op, c) ==
    [of |-> of, last |-> [op |-> op, c |-> c, children |-> comp.of[c].childComponents]]

CompInit(c, outcome) ==
    /\ \A k \in ListenerKeys : comp.of[c].eventListeners[k] < MaxHandlers
    /\ comp' = CompAfter([comp.of EXCEPT ![c] = init(@, outcome)], "init", c)
    /\ UNCHANGED <<pageVars, trap, bus, app, cfg, errs, anim, logger>>

CompAddListener(c, key) ==
    /\ comp.of[c].eventListeners[key] < MaxHandlers
    /\ comp' = CompAfter([comp.of EXCEPT ![c] = addEventListener(@, key)],
                         "addEventListener", c)
    /\ UNCHANGED <<pageVars, trap, bus, app, cfg, errs, anim, logger>>

CompRemoveListener(c, key) ==
    /\ comp' = CompAfter([comp.of EXCEPT ![c] = removeEventListener(@, key)],
                         "removeEventListener", c)
    /\ UNCHANGED <<pageVars, trap, bus, app, cfg, errs, anim, logger>>

\* parent.addChild(child)
CompAddChild ==
    /\ comp' = CompAfter([comp.of EXCEPT !["parent"].childComponents = @ \cup {"child"}],
                         "addChild", "parent")
    /\ UNCHANGED <<pageVars, trap, bus, app, cfg, errs, anim, logger>>

CompRemoveChild ==
    /\ comp' = CompAfter(removeChild(comp.of, "parent", "child"), "removeChild", "parent")
    /\ UNCHANGED <<pageVars, trap, bus, app, cfg, errs, anim, logger>>

CompDestroy(c) ==
    /\ comp' = CompAfter(destroy(comp.of, c), "destroy", c)
    /\ UNCHANGED <<pageVars, trap, bus, app, cfg, errs, anim, logger>>

NextComp ==
    \/ \E c \in Comps : \E outcome \in InitOutcomes : CompInit(c, outcome)
    \/ \E c \in Comps : \E key \in ListenerKeys : CompAddListener(c, key)
    \/ \E c \in Comps : \E key \in ListenerKeys : CompRemoveListener(c, key)
    \/ CompAddChild
    \/ CompRemoveChild
    \/ \E c \in Comps : CompDestroy(c)

SpecComp == InitServices /\ [][NextComp]_vars

\* ------------------------------------------------- the animations on their own
Animate(strategyName, el) ==
    /\ Len(anim.calls) < MaxCalls
    /\ anim' = [animate(anim, strategyName, el) EXCEPT !.op = "animate"]
    /\ UNCHANGED <<pageVars, trap, bus, app, cfg, errs, comp, logger>>

CancelAnimation(el) ==
    /\ anim' = [cancelAnimation(anim, el) EXCEPT !.op = "cancel"]
    /\ UNCHANGED <<pageVars, trap, bus, app, cfg, errs, comp, logger>>

CancelAll ==
    /\ anim' = [cancelAllAnimations(anim) EXCEPT !.op = "cancelAll"]
    /\ UNCHANGED <<pageVars, trap, bus, app, cfg, errs, comp, logger>>

\* The animation of call id reaches its end.
AnimationFinish(id) ==
    /\ id \in 1..Len(anim.calls)
    /\ anim.calls[id].el \in AnimElements
    /\ id \in anim.running[anim.calls[id].el]
    /\ anim' = [onFinish(anim, id) EXCEPT !.op = "finish"]
    /\ UNCHANGED <<pageVars, trap, bus, app, cfg, errs, comp, logger>>

NextAnim ==
    \/ \E s \in Strategies : \E el \in AnimElements \cup {NoElement} : Animate(s, el)
    \/ \E el \in AnimElements : CancelAnimation(el)
    \/ CancelAll
    \/ \E id \in 1..MaxCalls : AnimationFinish(id)

SpecAnim == InitServices /\ [][NextAnim]_vars

\* The same with every animation that plays reaching its end.
SpecAnimFair == SpecAnim /\ \A id \in 1..MaxCalls : WF_vars(AnimationFinish(id))

\* ------------------------------------------------------ the logger on its own
\* Logger.log(level, ...), also with a level that this.levels does not hold.
Log(level) ==
    /\ logger.recorded < MaxLogCalls
    /\ logger' = log(logger, level)
    /\ UNCHANGED <<pageVars, trap, bus, app, cfg, errs, comp, anim>>

SetLevel(level) ==
    /\ logger' = setLevel(logger, level)
    /\ UNCHANGED <<pageVars, trap, bus, app, cfg, errs, comp, anim>>

ClearLogs ==
    /\ logger' = clearLogs(logger)
    /\ UNCHANGED <<pageVars, trap, bus, app, cfg, errs, comp, anim>>

NextLogger ==
    \/ \E level \in LogLevels \cup {"TRACE"} : Log(level)
    \/ \E level \in LogLevels \cup {"TRACE"} : SetLevel(level)
    \/ ClearLogs

SpecLogger == InitServices /\ [][NextLogger]_vars

\* ------------------------------------------------------------------ claims
\* The navigation links that carry a key of the navigation map, and the
\* modal 'modal-' + key each of them stands for.
KeyHrefs == {TriggerOf(m) : m \in Modals}

TargetOf(h) == CHOOSE m \in Modals : TriggerOf(m) = h

\* The modals a step turns from not displayed to displayed, and back.
NewlyOpen == {m \in Modals : display[m] # "flex" /\ display'[m] = "flex"}

NewlyClosed == {m \in Modals : display[m] = "flex" /\ display'[m] # "flex"}

\* The steps that close a modal: close control, backdrop click, Escape, and
\* the end of the enhanced layer's close animation.
ClosingOps == {"closeClick", "root", "escape", "closeAnim"}

\* C1: with the entry script's basic layer attached, at most one modal is
\* displayed in every reachable state.
C1_AtMostOneOpen == boot = "main" => Cardinality(OpenSet) <= 1

\* C2: with the entry script's basic layer attached, once a click on the
\* close control of a displayed modal has been handled, that modal is hidden
\* and its aria-hidden is "true".
C2_CloseControlClosesItsModal ==
    (boot = "main" /\ last.op = "closeClick") =>
        (display[last.m] = "none" /\ aria[last.m] = "true")

\* C3 (as stated): activating the link of a key makes exactly one modal go
\* from closed to displayed, the mapped one, and at most one other modal go
\* from displayed to closed.
C3_ExactlyOneOpens ==
    [][\A h \in KeyHrefs :
         (last'.op = "nav" /\ last'.m = h) =>
             /\ NewlyOpen = {TargetOf(h)}
             /\ Cardinality(NewlyClosed \ {TargetOf(h)}) <= 1]_vars

\* C3 (amended): activating the link of a key leaves the mapped modal
\* displayed; it is the only modal that can go from closed to displayed,
\* and it does unless it was displayed already; at most one other modal goes
\* from displayed to closed.
C3_MappedModalOpen ==
    [][\A h \in KeyHrefs :
         (last'.op = "nav" /\ last'.m = h) =>
             /\ display'[TargetOf(h)] = "flex"
             /\ NewlyOpen \subseteq {TargetOf(h)}
             /\ (display[TargetOf(h)] # "flex" => NewlyOpen = {TargetOf(h)})
             /\ Cardinality(NewlyClosed \ {TargetOf(h)}) <= 1]_vars

\* A key's link has just been activated while another modal was displayed:
\* its modal is displayed, and so is the other one.
C3_Witness ==
    /\ last.op = "nav"
    /\ last.m = "#skills"
    /\ display["modal-skills"] = "flex"
    /\ display["modal-projects"] = "flex"

\* C4: once the link of a key has been activated, the mapped modal has
\* display 'flex' and aria-hidden "false", and body overflow is 'hidden'.
C4_OpenedModalShownAndLocked ==
    \A h \in KeyHrefs :
        (last.op = "nav" /\ last.m = h) =>
            /\ display[TargetOf(h)] = "flex"
            /\ aria[TargetOf(h)] = "false"
            /\ overflow = "hidden"

\* C5: where a basic layer's Escape listener is attached, pressing Escape
\* hides every displayed modal, sets its aria-hidden to "true" and unlocks
\* the body scroll; with no modal displayed it changes no modal's
\* open/closed state.
C5_EscapeCloses ==
    [][(last'.op = "escape" /\ (boot = "main" \/ enhanced = "failed")) =>
           /\ \A m \in Modals :
                  display[m] = "flex" => (display'[m] = "none" /\ aria'[m] = "true")
           /\ OpenSet # {} => overflow' = ""
           /\ OpenSet = {} => \A m \in Modals : display'[m] # "flex"]_vars

\* C6: after a click on the backdrop of a displayed modal the modal is no
\* longer displayed, and after a click inside its content panel it still is.
C6_BackdropClosesContentDoesNot ==
    /\ last.op = "root" => display[last.m] # "flex"
    /\ last.op = "content" => display[last.m] = "flex"

\* A backdrop click has just closed a modal opened through the basic layer.
C6_Witness ==
    /\ last.op = "root"
    /\ boot = "main"
    /\ display[last.m] = "none"
    /\ aria[last.m] = "true"

\* C7: when the close-control listener of the basic layer calls closeModal
\* on a modal that is not displayed, no modal's display or aria-hidden, the
\* body overflow and the focus do not change.
C7_CloseOfClosedIsNoOp ==
    [][(/\ boot = "main"
        /\ last'.op = "closeClick"
        /\ FirstFlexIndex(Cur) # 0
        /\ display[ModalIds[FirstFlexIndex(Cur)]] # "flex") =>
           UNCHANGED <<display, aria, overflow, focus>>]_vars

\* C8: with the entry script's basic layer attached, a step that closes the
\* modal opened last leaves body overflow as the opening found it and focus
\* on the element that had it when the opening began.
C8_RoundTrip ==
    [][(/\ boot = "main"
        /\ rt.m # "none"
        /\ last'.op \in ClosingOps
        /\ display[rt.m] = "flex"
        /\ display'[rt.m] # "flex") =>
           (overflow' = rt.overflow /\ focus' = rt.focus)]_vars

\* C9: after every step that closes a modal - close control, backdrop
\* click, Escape, end of a close animation - body overflow is unlocked.
C9_CloseUnlocksScroll ==
    last.op \in ClosingOps => overflow = ""

\* A backdrop click has closed one of two displayed modals: the body scroll
\* is unlocked although the other modal is still displayed.
C9_Witness ==
    /\ last.op = "root"
    /\ boot = "main"
    /\ OpenSet # {}
    /\ overflow = ""

\* C10: from every reachable state closeAllModals leaves every modal with
\* display 'none' and aria-hidden "true" and the body scroll unlocked,
\* applying it again changes nothing, and that is the state an Escape press
\* leaves where the entry script defines it.
C10_CloseAllIdempotent ==
    LET r == closeAllModals(Cur) IN
    /\ \A m \in Modals : r.display[m] = "none" /\ r.aria[m] = "true"
    /\ r.overflow = ""
    /\ closeAllModals(r) = r
    /\ (boot = "main" /\ last.op = "escape") =>
           /\ \A m \in Modals : display[m] = "none" /\ aria[m] = "true"
           /\ overflow = ""

\* Escape has just run closeAllModals with a focus timer of the contact
\* modal still pending: every modal is closed.
C10_Witness ==
    /\ boot = "main"
    /\ last.op = "escape"
    /\ timers # << >>
    /\ \A m \in Modals : display[m] = "none"
    /\ overflow = ""

\* C11: when Modal.open has shown a modal that was closed, no other modal
\* is displayed, and the callback that ends the closing of a modal never
\* runs while another modal is displayed.
C11_PreviousClosedBeforeShown ==
    [][/\ (/\ last'.op = "apiOpen"
           /\ last'.m \in Modals
           /\ display[last'.m] # "flex"
           /\ display'[last'.m] = "flex") =>
              \A o \in Modals \ {last'.m} : display'[o] # "flex"
       /\ last'.op = "closeAnim" => OpenSet \ {last'.m} = {}]_vars


\* C12: with the entry script's basic layer attached, the step that attaches
\* the enhanced layer leaves the set of displayed
\* modals, the aria-hidden of the displayed modals and the body overflow as
\* the earlier layers produced them.
C12_AttachKeepsVisibleState ==
    [][(boot = "main" /\ last'.op = "attach") =>
           /\ \A m \in Modals : (display'[m] = "flex") <=> (display[m] = "flex")
           /\ \A m \in OpenSet : aria'[m] = aria[m]
           /\ overflow' = overflow]_vars

\* C13: the failure of the module import changes no modal's display or
\* aria-hidden and not the body overflow, and after it the link of a key
\* displays the mapped modal, a click on the close control or on the backdrop
\* of a displayed modal hides that modal, and Escape hides every modal.
C13_FallbackKeepsWorking ==
    [][/\ last'.op = "loadFail" => UNCHANGED <<display, aria, overflow>>
       /\ enhanced = "failed" =>
              /\ \A h \in KeyHrefs :
                     (last'.op = "nav" /\ last'.m = h) => display'[TargetOf(h)] = "flex"
              /\ last'.op \in {"closeClick", "root"} => display'[last'.m] # "flex"
              /\ last'.op = "escape" => \A m \in Modals : display'[m] # "flex"]_vars

\* C14: a request to open a modal id that has no component records a
\* diagnostic and changes no modal's display or aria-hidden and not the body
\* overflow.
C14_UnknownIdDiagnosedNoOp ==
    [][(last'.op = "apiOpen" /\ last'.m \notin Modals) =>
           (last'.diag /\ UNCHANGED <<display, aria, overflow>>)]_vars

\* C17: once the closing of a modal has completed, the component's
\* previouslyFocused reference is null.
C17_ClearedOnClose ==
    last.op = "closeAnim" => prevFocused[last.m] = "null"


\* The hrefs of the navigation links whose key is neither a key of the
\* navigation map nor the scroll key "hero".
NoEntryHrefs == {h \in NavHrefs : HashOf(h) \notin DOMAIN navMap \cup {"hero"}}

\* C15: with the entry script's basic layer attached, activating the link
\* #hero leaves the viewport at the document top,
\* displays and hides no modal and leaves the body overflow as it was.
C15_HeroScrollsToTop ==
    [][(boot = "main" /\ last'.op = "nav" /\ last'.m = "#hero") =>
           /\ scroll' = "top"
           /\ \A m \in Modals : (display'[m] = "flex") <=> (display[m] = "flex")
           /\ overflow' = overflow]_vars

\* C16: after the activation of a link, the default navigation has been
\* prevented when the link's key is a key of the navigation map, and has not
\* been prevented when the key matches no entry.
C16_DefaultSuppression ==
    last.op = "nav" =>
        /\ HashOf(last.m) \in DOMAIN navMap => last.prevented
        /\ last.m \in NoEntryHrefs => ~last.prevented


\* C18: for a modal with focusable elements, Tab with focus on the last one
\* leaves focus on the first and Shift+Tab with focus on the first leaves it
\* on the last, the default prevented; for every other key or focus the
\* listener leaves focus where it was and does not prevent the default.
C18_FocusTrapWraps ==
    LET f == getFocusableElements(trap.els)
        r == trap.res
        wrapsForward == r.key = "Tab" /\ ~r.shift /\ r.before = f[Len(f)]
        wrapsBack == r.key = "Tab" /\ r.shift /\ r.before = f[1]
    IN  (r.key # "none" /\ Len(f) > 0) =>
            /\ wrapsForward => (r.after = f[1] /\ r.prevented)
            /\ wrapsBack => (r.after = f[Len(f)] /\ r.prevented)
            /\ ~(wrapsForward \/ wrapsBack) => (r.after = r.before /\ ~r.prevented)

\* Shift+Tab on the first of several focusable elements has just wrapped
\* focus to the last one.
C18_Witness ==
    /\ Len(getFocusableElements(trap.els)) >= 2
    /\ trap.res.key = "Tab" /\ trap.res.shift /\ trap.res.prevented
    /\ trap.res.before = getFocusableElements(trap.els)[1]
    /\ trap.active = getFocusableElements(trap.els)[Len(getFocusableElements(trap.els))]

\* The callbacks subscribed to the event of the last publish.
Subscribed == bus.events[bus.pub.event].cbs

\* C19 (as stated): a publish invokes every callback subscribed to the event
\* exactly once and no other callback.
C19_EachCallbackOnce ==
    bus.pub.event # "none" =>
        \A cb \in Callbacks :
            Cardinality({i \in 1..Len(bus.calls) : bus.calls[i].cb = cb})
                = IF \E i \in 1..Len(Subscribed) : Subscribed[i] = cb THEN 1 ELSE 0

\* C19 (amended): a publish makes one invocation for every subscription to
\* the event, in subscription order, each with the published data, and none
\* else; no exception reaches the publisher.
C19_OncePerSubscription ==
    bus.pub.event # "none" =>
        /\ bus.calls = [i \in 1..Len(Subscribed) |->
                            [cb |-> Subscribed[i], data |-> bus.pub.data]]
        /\ ~bus.propagated

\* A publish has just invoked a throwing callback and then a later one,
\* while the other event has a subscriber that was not invoked.
C19_Witness ==
    /\ bus.pub.event = "modal:open"
    /\ bus.calls = <<[cb |-> "bad", data |-> "d1"], [cb |-> "f", data |-> "d1"]>>
    /\ bus.events["modal:closed"].cbs = <<"g">>

\* C20: a setState calls a listener subscribed with a key with (new, old)
\* when the value at that key has changed, and does not call it when the
\* value is the same.
C20_KeyedListenersNotified ==
    [][app'.op = "setState" =>
           \A i \in 1..Len(app.listeners) :
               LET old == getNestedProperty(app.top, app.heap, app.listeners[i])
                   new == getNestedProperty(app'.top, app'.heap, app.listeners[i])
                   mine == {j \in 1..Len(app'.notes) : app'.notes[j].listener = i}
               IN  /\ old # new =>
                          /\ Cardinality(mine) = 1
                          /\ \A j \in mine : app'.notes[j].new = new
                                               /\ app'.notes[j].old = old
                   /\ old = new => mine = {}]_vars

\* C21: right after reset(), get(p) returns the value that the
\* configuration literal gives for p, for every path p, whatever set and
\* update calls came before.
C21_ResetRestoresDefaults ==
    cfg.op = "reset" => \A p \in ConfigPaths : getNestedValue(cfg, p) = DefaultOf(p)

\* C22: in a series of calls of handleError for one error with retry enabled
\* and the same maxRetries, at most maxRetries calls in a row return a retry
\* signal, and the call that follows maxRetries of them returns no retry
\* signal but the error (or the result of the fallback function, when one is
\* passed and returns).  An error with code VALIDATION_ERROR or CONFIG_ERROR
\* never gets a retry signal.
C22_RetryLimit ==
    /\ errs.run.retry => errs.run.n <= errs.run.maxRetries
    /\ (errs.run.retry /\ errs.res.before = errs.run.maxRetries) =>
           errs.res.kind = IF errs.res.fallback = "value" THEN "fallback" ELSE "error"
    /\ errs.run.error.code \in nonRetryableErrors => errs.res.kind # "retry"

\* Two retry signals in a row, and then the error.
C22_Witness ==
    /\ errs.run.retry /\ errs.run.maxRetries = 2 /\ errs.res.before = 2
    /\ errs.res.kind = "error"

\* C23: the error queue never holds more than maxQueueSize errors; it holds
\* the errors that arrived last (since it was cleared), oldest first.
C23_QueueBounded ==
    /\ Len(errs.errorQueue) =
           IF errs.sinceClear < maxQueueSize THEN errs.sinceClear ELSE maxQueueSize
    /\ \A i \in 1..Len(errs.errorQueue) :
           errs.errorQueue[i].arrival = errs.arrivals - Len(errs.errorQueue) + i

\* The queue was full and one more error arrived.
C23_Witness ==
    /\ errs.sinceClear > maxQueueSize
    /\ Len(errs.errorQueue) = maxQueueSize
    /\ errs.errorQueue[1].arrival = errs.arrivals - maxQueueSize + 1

\* A component after destroy(): nothing of it attached or registered, not
\* initialised.
Destroyed(x) ==
    /\ x.attached = NoListeners
    /\ x.eventListeners = NoListeners
    /\ ~x.isInitialized

\* C24: right after destroy() on a component, whatever state it was in, no
\* listener that it registered is still attached, its registry is empty, it
\* has no children left, the children it had are destroyed, and
\* isInitialized is false.
C24_DestroyCleansUp ==
    comp.last.op = "destroy" =>
        /\ Destroyed(comp.of[comp.last.c])
        /\ comp.of[comp.last.c].childComponents = {}
        /\ \A d \in comp.last.children : Destroyed(comp.of[d])

\* C25: with the entry script's basic layer attached, in every reachable
\* state in which no modal is displayed the body scroll is unlocked.
C25_NoModalScrollUnlocked ==
    (boot = "main" /\ OpenSet = {}) => overflow = ""

\* C26: with the entry script's basic layer attached, in every reachable
\* state in which some modal is displayed the body scroll is locked.
C26_ModalShownScrollLocked ==
    (boot = "main" /\ OpenSet # {}) => overflow = "hidden"

\* C27: in the enhanced layer, a close request on an open modal is always
\* followed, sooner or later, by a state in which that modal has display
\* 'none' and aria-hidden "true" and the body scroll is unlocked, whatever
\* is opened or closed in between.
C27_CloseEventuallyCloses ==
    \A m \in FairModals :
        (last.op = "apiClose" /\ last.m = m /\ IsDisplayed(m))
            ~> (display[m] = "none" /\ aria[m] = "true" /\ overflow = "")

\* The close animation of a modal has ended while another modal, opened in
\* between, is displayed.
C27_Witness ==
    /\ last.op = "closeAnim"
    /\ display[last.m] = "none" /\ aria[last.m] = "true" /\ overflow = ""
    /\ OpenSet # {}

\* A close animation is running: its callback is still to come.
ClosePending == \E i \in 1..Len(timers) : timers[i].kind = "closeAnim"

\* C28: with the enhanced layer attached over the entry script's basic
\* layer, whenever no close animation is pending AppState's activeModal is
\* the id of the displayed modal, and null when no modal is displayed.
C28_ActiveModalTracksDisplay ==
    (boot = "main" /\ enhanced = "attached" /\ ~ClosePending) =>
        /\ \A m \in OpenSet : activeModal = m
        /\ OpenSet = {} => activeModal = "null"

\* C29: in the enhanced layer the 'modal:opened' and 'modal:closed' events
\* of every modal alternate, starting with 'modal:opened': a close is
\* finalised once, however many close requests its animation sees.
C29_EventsAlternate == evt.alternate

\* C30: in every reachable state, aria-hidden of a modal is "false" if and
\* only if the modal is displayed.
C30_AriaMatchesDisplay ==
    \A m \in Modals : (aria[m] = "false") <=> IsDisplayed(m)

C32_OneAnimationPerElement ==
    /\ \A el \in AnimElements :
           /\ Cardinality(anim.running[el]) <= 1
           /\ anim.running[el] =
                  IF anim.activeAnimations[el] = 0 THEN {}
                  ELSE {anim.activeAnimations[el]}
    /\ (\A el \in AnimElements : anim.running[el] = {}) => getActiveCount(anim) = 0

\* An animate() call has replaced the animation of an earlier call on the
\* same element, and has finished since.
C32_Witness ==
    /\ anim.op = "finish"
    /\ Len(anim.calls) >= 2
    /\ anim.calls[1].el = "e1" /\ anim.calls[1].status = "pending"
    /\ anim.calls[2].el = "e1" /\ anim.calls[2].status = "resolved"
    /\ getActiveCount(anim) = 0

\* C33: every animate() call eventually settles: a call whose promise is
\* pending is followed by a state in which it has resolved or rejected.
C33_EveryCallSettles ==
    \A id \in 1..MaxCalls :
        (id <= Len(anim.calls) /\ anim.calls[id].status = "pending")
            ~> (id <= Len(anim.calls) /\ anim.calls[id].status # "pending")

\* C34: calling the unsubscribe function of a subscription removes that one
\* subscription: the listener count of its event goes down by one and the
\* subscriptions of the other events stay.
C34_UnsubscribeRemovesOne ==
    [][\A event \in Events, callback \in Callbacks :
           ( /\ \E i \in 1..Len(bus.events[event].cbs) :
                    bus.events[event].cbs[i] = callback
             /\ bus' = Forget(unsubscribe(bus, event, callback)) )
           => /\ Len(bus'.events[event].cbs) = Len(bus.events[event].cbs) - 1
              /\ \A other \in Events \ {event} :
                     bus'.events[other] = bus.events[other]]_vars

\* C35: a callback removed from inside a callback of a publish is not
\* invoked by that publish after the removal has returned.
C35_RemovedNotInvoked ==
    bus.removal.at > 0 =>
        \A i \in 1..Len(bus.calls) :
            i > bus.removal.at => bus.calls[i].cb \notin bus.removal.cbs

\* C36: set, update, import and reset notify every observer subscribed to a
\* path whose value the operation changes, and every observer subscribed to
\* '*' when the operation changes any value.
C36_ObserversNotified ==
    [][cfg'.op \in {"set", "update", "import", "reset"} =>
           \A o \in cfg.observers :
               LET watched == IF o = "*" THEN ConfigPaths ELSE {o} IN
               (\E p \in watched : getNestedValue(cfg', p) # getNestedValue(cfg, p))
                   => o \in cfg'.notified]_vars

\* C37: the log never holds more than maxLogs entries; it holds the entries
\* recorded last since it was cleared, in the order they were logged; and
\* the level of every entry had a severity number at most the level that was
\* current when it was logged.
C37_LogBoundedAndRecent ==
    /\ Len(logger.logs) <= maxLogs
    /\ Len(logger.logs) =
           IF logger.sinceClear < maxLogs THEN logger.sinceClear ELSE maxLogs
    /\ \A i \in 1..Len(logger.logs) :
           /\ logger.logs[i].n = logger.recorded - Len(logger.logs) + i
           /\ levels[logger.logs[i].level] <= logger.logs[i].current

\* More than maxLogs entries have been recorded, at different levels, and a
\* DEBUG entry is among those kept.
C37_Witness ==
    /\ logger.sinceClear > maxLogs
    /\ Len(logger.logs) = maxLogs
    /\ logger.logs[maxLogs].level = "DEBUG"
    /\ logger.logs[1].level = "ERROR"
    /\ logger.currentLevel = levels["WARN"]

=============================================================================
